---- MODULE Spec2Model ----
(***************************************************************************)
(* FloatBot ingestion pipeline (Sivaaa44/floatbot-sih): the safe value     *)
(* accessor, the source resolver, the metadata and profile extractors, the *)
(* validator, the persistence writer and the per-platform orchestrator,    *)
(* modelled from data_processor.py, direct_gdac_access.py, database.py and *)
(* floatbot_main.py.                                                       *)
(***************************************************************************)
EXTENDS Integers, Sequences, FiniteSets, TLC

VARIABLES
    call,          \* the invocation under study (its arguments)
    result,        \* what that invocation returned ("pending" before it ran)
    floats,        \* the rows of table floats
    cycles,        \* the rows of table cycles
    measurements,  \* the rows of table measurements
    pc,            \* where the running process_single_float stands ("idle": none)
    run,           \* the locals of the current (or last) process_single_float
    calls,         \* how often that run resolved, extracted, validated, wrote
    multi          \* the locals of the running process_multiple_floats

store == <<floats, cycles, measurements>>
orch == <<pc, run, calls, multi>>
vars == <<call, result, store, orch>>

(***************************************************************************)
(* Bounds of the model.                                                    *)
(***************************************************************************)
\* longest dimension of an array field handed to the accessor
MaxLen == 2

(***************************************************************************)
(* Values.  Every value is a record [t, v]: t is the runtime type, v the   *)
(* payload.  RAISE stands for "the call raised an exception".              *)
(***************************************************************************)
None == [t |-> "none", v |-> 0]
RAISE == [t |-> "raise", v |-> 0]
Num(n) == [t |-> "num", v |-> n]
NaN == [t |-> "nan", v |-> 0]
\* payloads of byte/character strings
TXT == 1
ISO == 2
BLANK == 0
CORRUPT == -1
Bytes(k) == [t |-> "bytes", v |-> k]
Str(k) == [t |-> "str", v |-> k]
\* numpy datetime64: v = 0 is NaT
Dt64(k) == [t |-> "dt64", v |-> k]
PyInt(k) == [t |-> "pyint", v |-> k]
Instant(k) == [t |-> "instant_utc", v |-> k]

\* element values a scalar field can hold
Elems ==
    {Num(0), Num(1), NaN, Bytes(TXT), Bytes(ISO), Bytes(BLANK), Bytes(CORRUPT),
     Str(BLANK), Str(ISO), Dt64(1), Dt64(0)}
\* element values of the array fields the model enumerates
ArrElems1 == {Num(1), Num(2), NaN, Bytes(CORRUPT), Bytes(TXT)}
ArrElems2 == {Num(1), NaN}

(***************************************************************************)
(* A dataset field (xarray DataArray): nd dimensions (-1: the variable is  *)
(* not in the dataset), extents n1 (and n2), data d flattened row-major.   *)
(***************************************************************************)
Absent == [nd |-> -1, n1 |-> 0, n2 |-> 0, d |-> <<>>]
Scalar(e) == [nd |-> 0, n1 |-> 0, n2 |-> 0, d |-> <<e>>]
Arr1(s) == [nd |-> 1, n1 |-> Len(s), n2 |-> 0, d |-> s]
Arr2(n, m, s) == [nd |-> 2, n1 |-> n, n2 |-> m, d |-> s]

SeqsOfLen(S, n) == [1..n -> S]

Fields ==
    {Absent}
    \cup {Scalar(e) : e \in Elems}
    \cup UNION {{Arr1(s) : s \in SeqsOfLen(ArrElems1, n)} : n \in 1..MaxLen}
    \cup UNION {UNION {{Arr2(n, m, s) : s \in SeqsOfLen(ArrElems2, n * m)}
                        : m \in 1..MaxLen} : n \in 1..MaxLen}

\* the index argument: none, an integer, or a (profile, level) tuple
NoIndex == [k |-> "none", i |-> 0, j |-> 0]
IntIndex(i) == [k |-> "int", i |-> i, j |-> 0]
PairIndex(i, j) == [k |-> "pair", i |-> i, j |-> j]
Indexes ==
    {NoIndex}
    \cup {IntIndex(i) : i \in 0..MaxLen}
    \cup {PairIndex(i, j) : i \in 0..MaxLen, j \in 0..MaxLen}

(***************************************************************************)
(* safe_get_value (data_processor.py 93-128).                              *)
(***************************************************************************)
\* value = value[index] for an integer index (lines 102-103): one step into the
\* first dimension
IndexFirstDim(f, i) ==
    IF f.nd = 1
    THEN Scalar(f.d[i + 1])
    ELSE Arr1(SubSeq(f.d, i * f.n2 + 1, (i + 1) * f.n2))

\* lines 101-103: RAISE is the TypeError of  len(value) > index  for a tuple
SelectIndex(f, index) ==
    IF index.k = "none" THEN f
    ELSE IF ~(f.nd > 0) THEN f
    ELSE IF index.k = "pair" THEN RAISE
    ELSE IF f.n1 > index.i THEN IndexFirstDim(f, index.i)
    ELSE f

\* lines 106-110: .values then .item(); item() raises ValueError unless the
\* array holds exactly one element; a datetime64 comes back as an integer count
\* of nanoseconds and NaT as None
Item(f) ==
    IF Len(f.d) # 1 THEN RAISE
    ELSE LET e == f.d[1] IN
         IF e.t = "dt64" THEN (IF e.v = 0 THEN None ELSE PyInt(e.v))
         ELSE e

\* lines 113-118: bytes are decoded and stripped, strings stripped
DecodeStrip(x) ==
    IF x.t = "bytes"
    THEN (IF x.v = CORRUPT THEN RAISE ELSE Str(x.v))
    ELSE x

\* lines 121-124
NullIfMissing(x) ==
    IF x.t \in {"nan", "none"} \/ x = Str(BLANK) THEN None ELSE x

\* the body of the try block, lines 96-124
safe_get_value_try(f, index) ==
    IF f.nd = -1 THEN None
    ELSE LET sel == SelectIndex(f, index) IN
         IF sel = RAISE THEN RAISE
         ELSE LET it == Item(sel) IN
              IF it = RAISE THEN RAISE
              ELSE LET dec == DecodeStrip(it) IN
                   IF dec = RAISE THEN RAISE ELSE NullIfMissing(dec)

\* the function without its  except Exception  clause
safe_get_value_unguarded(f, index) == safe_get_value_try(f, index)

\* lines 95-128: any exception of the body is logged and None returned
safe_get_value(f, index) ==
    LET r == safe_get_value_try(f, index) IN
    IF r = RAISE THEN None ELSE r

(***************************************************************************)
(* safe_get_datetime (data_processor.py 130-157).                          *)
(***************************************************************************)
\* pd.to_datetime(value) of a string, lines 145-151: a string that does not
\* parse raises inside the inner try and None is returned
ParseDatetimeString(x) ==
    IF x.v = ISO THEN Instant(x.v) ELSE None

safe_get_datetime_try(f, index) ==
    LET value == safe_get_value(f, index) IN
    IF value = RAISE THEN RAISE
    ELSE IF value = None THEN None
    ELSE IF value.t = "dt64" THEN Instant(value.v)
    ELSE IF value.t = "str" THEN ParseDatetimeString(value)
    ELSE None

safe_get_datetime(f, index) ==
    LET r == safe_get_datetime_try(f, index) IN
    IF r = RAISE THEN None ELSE r

(***************************************************************************)
(* Specification of the accessor: the arguments are drawn in Init, one     *)
(* action per function applies it.                                         *)
(***************************************************************************)
Pending == [t |-> "pending", v |-> 0]

\* the None a metadata extraction or a platform lookup returns
NoMetadata == [none |-> TRUE]

EmptyStore == floats = {} /\ cycles = {} /\ measurements = {}

\* no process_single_float has been called yet
NoRun ==
    [wmo_id |-> "", force_update |-> FALSE, fallback |-> FALSE,
     metadata |-> NoMetadata, cycles_data |-> <<>>, measurements_data |-> <<>>,
     report |-> NoMetadata, success |-> TRUE, i |-> 0, batches |-> <<>>,
     sent |-> <<>>, sizes |-> <<>>, cycles_ok |-> <<>>,
     metadata_ok |-> TRUE, ret |-> "none",
     meta_ds |-> NoMetadata, prof_ds |-> NoMetadata,
     before |-> [floats |-> {}, cycles |-> {}, measurements |-> {}]]

NoCalls == [runs |-> 0, lookup |-> 0, resolve |-> 0, extract |-> 0,
            validate |-> 0, write |-> 0]

NoMulti ==
    [active |-> FALSE, wmo_ids |-> <<>>, todo |-> <<>>, force_update |-> FALSE,
     results |-> {}]

OrchIdle == pc = "idle" /\ run = NoRun /\ calls = NoCalls /\ multi = NoMulti

InitAccessor ==
    /\ call \in [fn : {"safe_get_value", "safe_get_datetime"},
                 field : Fields, index : Indexes]
    /\ result = Pending
    /\ EmptyStore
    /\ OrchIdle

Call_safe_get_value ==
    /\ result = Pending
    /\ call.fn = "safe_get_value"
    /\ result' = safe_get_value(call.field, call.index)
    /\ UNCHANGED <<call, store, orch>>

Call_safe_get_datetime ==
    /\ result = Pending
    /\ call.fn = "safe_get_datetime"
    /\ result' = safe_get_datetime(call.field, call.index)
    /\ UNCHANGED <<call, store, orch>>

NextAccessor == Call_safe_get_value \/ Call_safe_get_datetime

SpecAccessor == InitAccessor /\ [][NextAccessor]_vars

(***************************************************************************)
(* Source resolver: get_argo_float_with_fallback                           *)
(* (data_processor.py 44-77).                                              *)
(***************************************************************************)
\* self.gdac_host and self.fallback_hosts, lines 33-40
gdac_host == "https"
fallback_hosts ==
    <<"https://data-argo.ifremer.fr", "ftp://ftp.ifremer.fr/ifremer/argo",
      "https://usgodae.org/pub/outgoing/argo", "s3://argo-gdac-sandbox/pub">>
\* line 55
hosts_to_try == <<gdac_host>> \o fallback_hosts
\* the default of the max_retries parameter, line 44
max_retries_default == 3
\* largest max_retries argument the model passes
MaxRetriesArg == 4

\* what one mirror does when asked for the platform's catalogue: it lists the
\* datasets ("ok"), raises or times out ("raise"), or lists nothing ("empty")
HostStatus == {"ok", "raise", "empty"}
Reachability == [1..Len(hosts_to_try) -> HostStatus]

LogEntry(level, msg, host) == [level |-> level, msg |-> msg, host |-> host]

Min(a, b) == IF a < b THEN a ELSE b

\* the loop of lines 57-74 from host number i up to host number last; af = 0 is
\* the None of line 77
RECURSIVE TryHosts(_, _, _, _)
TryHosts(reach, i, last, log) ==
    IF i > last
    THEN [af |-> 0, log |-> Append(log, LogEntry("error", "all_failed", 0))]
    ELSE LET attempt == Append(log, LogEntry("info", "attempt", i)) IN
         IF reach[i] = "ok"
         THEN [af |-> i, log |-> Append(attempt, LogEntry("info", "connected", i))]
         ELSE IF reach[i] = "raise"
         THEN TryHosts(reach, i + 1, last,
                       Append(attempt, LogEntry("warning", "failed", i)))
         ELSE TryHosts(reach, i + 1, last, attempt)

\* the resolver with the slice of line 57 dropped: every host is tried
get_argo_float_all_hosts(reach, max_retries) ==
    TryHosts(reach, 1, Len(hosts_to_try), <<>>)

\* hosts_to_try[:max_retries + 1], line 57
get_argo_float_with_fallback(reach, max_retries) ==
    TryHosts(reach, 1, Min(max_retries + 1, Len(hosts_to_try)), <<>>)

\* the hosts a resolve call attempted, in order, and the failures it logged
Attempts(r) == SelectSeq(r.log, LAMBDA e : e.msg = "attempt")
Failures(r) == SelectSeq(r.log, LAMBDA e : e.level = "warning")

InitResolver ==
    /\ call \in [fn : {"get_argo_float_with_fallback"}, reach : Reachability,
                 max_retries : 0..MaxRetriesArg]
    /\ result = Pending
    /\ EmptyStore
    /\ OrchIdle

Call_get_argo_float_with_fallback ==
    /\ result = Pending
    /\ call.fn = "get_argo_float_with_fallback"
    /\ result' = get_argo_float_with_fallback(call.reach, call.max_retries)
    /\ UNCHANGED <<call, store, orch>>

NextResolver == Call_get_argo_float_with_fallback

SpecResolver == InitResolver /\ [][NextResolver]_vars

(***************************************************************************)
(* Datasets.  A dataset is its dimensions and a function from variable     *)
(* names to fields; Absent marks a variable the dataset does not hold, and *)
(* a dimension of -1 one the dataset does not have.                        *)
(***************************************************************************)
\* most profiles (N_PROF) and most levels (N_LEVELS) of a profile dataset
MaxProf == 2
MaxLevels == 2

Get(ds, var_name) == ds.v[var_name]

\* the profile variables the model reads, of the 17 per-cycle and 38 per-level
\* ones (data_processor.py 264-282 and 322-371)
ProfVars ==
    {"CYCLE_NUMBER", "JULD", "LATITUDE", "DATA_MODE", "PRES", "PRES_QC",
     "PRES_ADJUSTED", "PRES_ADJUSTED_QC", "PRES_ADJUSTED_ERROR", "TEMP", "PSAL"}

(***************************************************************************)
(* Profile extractor: extract_measurements_for_profile (309-378) and the   *)
(* loop of extract_cycle_data (261-292).                                   *)
(***************************************************************************)
\* lines 322-371: one measurement of level  level  of profile  profile_index
Measurement(prof_ds, wmo_id, cycle_number, profile_index, level) ==
    LET at == PairIndex(profile_index, level) IN
    [wmo_id |-> wmo_id,
     cycle_number |-> cycle_number,
     measurement_level |-> level,
     pressure |-> safe_get_value(Get(prof_ds, "PRES"), at),
     pressure_qc |-> safe_get_value(Get(prof_ds, "PRES_QC"), at),
     pressure_adjusted |-> safe_get_value(Get(prof_ds, "PRES_ADJUSTED"), at),
     pressure_adjusted_qc |-> safe_get_value(Get(prof_ds, "PRES_ADJUSTED_QC"), at),
     pressure_adjusted_error |->
         safe_get_value(Get(prof_ds, "PRES_ADJUSTED_ERROR"), at),
     temperature |-> safe_get_value(Get(prof_ds, "TEMP"), at),
     salinity |-> safe_get_value(Get(prof_ds, "PSAL"), at)]

\* lines 319-320: a level whose pressure is None or pd.isna is skipped
KeepLevel(pressure) == pressure # None /\ pressure # NaN

\* the level loop, lines 316-373, from level  level  on
RECURSIVE LevelLoop(_, _, _, _, _)
LevelLoop(prof_ds, wmo_id, cycle_number, profile_index, level) ==
    IF level >= prof_ds.n_levels THEN <<>>
    ELSE LET pressure ==
                 safe_get_value(Get(prof_ds, "PRES"), PairIndex(profile_index, level))
             rest == LevelLoop(prof_ds, wmo_id, cycle_number, profile_index, level + 1)
         IN  IF ~KeepLevel(pressure) THEN rest
             ELSE <<Measurement(prof_ds, wmo_id, cycle_number, profile_index, level)>>
                  \o rest

\* lines 309-378: len(prof_ds.N_LEVELS) raises when the dataset has no such
\* dimension; the exception is caught at line 375 and the measurements built so
\* far (none) are returned
extract_measurements_for_profile(prof_ds, wmo_id, cycle_number, profile_index) ==
    IF prof_ds.n_levels = -1 THEN <<>>
    ELSE LevelLoop(prof_ds, wmo_id, cycle_number, profile_index, 0)

\* int(value or 0), line 266: RAISE is the ValueError of int() of a string that
\* is no number
IntOrZero(x) ==
    IF x = None THEN 0
    ELSE IF x.t \in {"num", "pyint"} THEN x.v
    ELSE -1

IntRaises(x) == x # None /\ x.t \notin {"num", "pyint"}

\* lines 264-282: the cycle record of profile i
CycleRecord(prof_ds, wmo_id, i) ==
    [wmo_id |-> wmo_id,
     cycle_number |->
         IntOrZero(safe_get_value(Get(prof_ds, "CYCLE_NUMBER"), IntIndex(i))),
     profile_date |-> safe_get_datetime(Get(prof_ds, "JULD"), IntIndex(i)),
     profile_latitude |-> safe_get_value(Get(prof_ds, "LATITUDE"), IntIndex(i)),
     ocean_area |-> "Indian Ocean",
     data_mode |-> safe_get_value(Get(prof_ds, "DATA_MODE"), IntIndex(i))]

\* whether building the cycle record of profile i raises (line 266)
CycleRaises(prof_ds, i) ==
    IntRaises(safe_get_value(Get(prof_ds, "CYCLE_NUMBER"), IntIndex(i)))

NoData == [cycles |-> <<>>, measurements |-> <<>>]

\* the profile loop, lines 261-292, from profile i on: a profile whose record
\* raises is logged and skipped
RECURSIVE ProfileLoop(_, _, _)
ProfileLoop(prof_ds, wmo_id, i) ==
    IF i >= prof_ds.n_prof THEN NoData
    ELSE LET rest == ProfileLoop(prof_ds, wmo_id, i + 1) IN
         IF CycleRaises(prof_ds, i) THEN rest
         ELSE LET cycle_data == CycleRecord(prof_ds, wmo_id, i)
                  cycle_measurements ==
                      extract_measurements_for_profile(
                          prof_ds, wmo_id, cycle_data.cycle_number, i)
              IN  [cycles |-> <<cycle_data>> \o rest.cycles,
                   measurements |-> cycle_measurements \o rest.measurements]

\* extract_cycle_data, lines 244-307, once the profile dataset is at hand:
\* af = 0 is the failed resolution (lines 251-253), opened = FALSE an
\* open_dataset('prof') that raised, n_prof = -1 a dataset without N_PROF
\* (both end in the handler of lines 298-300)
extract_cycle_data(af, opened, prof_ds, wmo_id) ==
    IF af = 0 \/ ~opened \/ prof_ds.n_prof = -1 THEN NoData
    ELSE ProfileLoop(prof_ds, wmo_id, 0)

\* the profile datasets of the extractor's specification: every shape of
\* CYCLE_NUMBER and PRES within the bounds
CycleElems == {Num(1), NaN, Bytes(TXT)}
PresElems == {Num(1), NaN}

ProfDataset(n_prof, n_levels, cyc, pres, temp, aux) ==
    [n_prof |-> n_prof, n_levels |-> n_levels,
     v |-> [x \in ProfVars |->
              CASE x = "CYCLE_NUMBER" -> cyc
                [] x = "PRES" -> pres
                [] x = "TEMP" -> temp
                [] OTHER -> aux]]

Dim(n) == IF n < 0 THEN 0 ELSE n

CycleFields(n_prof) ==
    {Absent} \cup {Arr1(s) : s \in SeqsOfLen(CycleElems, Dim(n_prof))}
PresFields(n_prof, n_levels) ==
    {Absent, Scalar(Num(1)), Scalar(NaN)}
    \cup {Arr2(Dim(n_prof), Dim(n_levels), s) :
            s \in SeqsOfLen(PresElems, Dim(n_prof) * Dim(n_levels))}

ProfDatasets(max_prof, max_levels) ==
    UNION {UNION {
        {ProfDataset(n, m, cyc, pres, temp, aux) :
            cyc \in CycleFields(n), pres \in PresFields(n, m),
            temp \in {Absent, Scalar(Num(1))},
            aux \in {Absent, Scalar(Bytes(TXT))}}
        : m \in (-1)..max_levels} : n \in (-1)..max_prof}

Platforms == {"1901234", "2902345"}

InitExtract ==
    /\ call \in [fn : {"extract_cycle_data"}, af : 0..1, opened : BOOLEAN,
                 prof_ds : ProfDatasets(MaxProf, MaxLevels),
                 wmo_id : {"1901234"}]
    /\ result = Pending
    /\ EmptyStore
    /\ OrchIdle

Call_extract_cycle_data ==
    /\ result = Pending
    /\ call.fn = "extract_cycle_data"
    /\ result' = extract_cycle_data(call.af, call.opened, call.prof_ds, call.wmo_id)
    /\ UNCHANGED <<call, store, orch>>

NextExtract == Call_extract_cycle_data

SpecExtract == InitExtract /\ [][NextExtract]_vars

(***************************************************************************)
(* Metadata extractor: extract_float_metadata (data_processor.py 159-232). *)
(***************************************************************************)
\* the metadata variables the model reads, of the 17 of lines 194-214
MetaVars ==
    {"LAUNCH_LATITUDE", "LAUNCH_LONGITUDE", "LAUNCH_DATE", "PLATFORM_TYPE",
     "PLATFORM_MAKER", "PROJECT_NAME", "END_MISSION_DATE"}

\* float(value), lines 202-203: raises for a string that is no number
FloatRaises(x) == x.t = "str"

\* lines 181-225 once the dataset is open
MetadataFrom(meta_ds, wmo_id) ==
    LET launch_lat == safe_get_value(Get(meta_ds, "LAUNCH_LATITUDE"), NoIndex)
        launch_lon == safe_get_value(Get(meta_ds, "LAUNCH_LONGITUDE"), NoIndex)
    IN  IF launch_lat = None \/ launch_lon = None THEN NoMetadata
        ELSE IF FloatRaises(launch_lat) \/ FloatRaises(launch_lon) THEN NoMetadata
        ELSE [wmo_id |-> wmo_id,
              platform_type |-> safe_get_value(Get(meta_ds, "PLATFORM_TYPE"), NoIndex),
              platform_maker |->
                  safe_get_value(Get(meta_ds, "PLATFORM_MAKER"), NoIndex),
              project_name |-> safe_get_value(Get(meta_ds, "PROJECT_NAME"), NoIndex),
              launch_date |-> safe_get_datetime(Get(meta_ds, "LAUNCH_DATE"), NoIndex),
              launch_latitude |-> Num(launch_lat.v),
              launch_longitude |-> Num(launch_lon.v),
              end_mission_date |->
                  safe_get_datetime(Get(meta_ds, "END_MISSION_DATE"), NoIndex),
              dac_name |-> Str(TXT)]

\* lines 169-232: af = 0 is the failed resolution (lines 173-175), opened = FALSE
\* an open_dataset('meta') that raised (lines 223-225)
extract_float_metadata(af, opened, meta_ds, wmo_id) ==
    IF af = 0 \/ ~opened THEN NoMetadata
    ELSE MetadataFrom(meta_ds, wmo_id)

(***************************************************************************)
(* Direct access: DirectGDACAccess (direct_gdac_access.py 19-204) and the  *)
(* wrapper extract_float_metadata_with_direct_fallback (210-247).          *)
(***************************************************************************)
\* self.gdac_servers, lines 23-39: the transport of each server
gdac_servers == <<"http", "http", "ftp">>

\* what a server does for one download: no DAC directory holds the platform
\* ("nodac"), the download raises ("raise"), the file downloads but does not
\* open as a dataset ("corrupt"), or the dataset opens ("ok")
ServerStatus == {"ok", "nodac", "raise", "corrupt"}
ServerReach == [1..Len(gdac_servers) -> ServerStatus]

\* download_netcdf_file, lines 87-125, from server i on: find_float_dac finds
\* nothing on an ftp server (lines 66-68); ds = 0 is the None of line 125 and
\* tmp counts the temporary files written and not unlinked (lines 107-115)
RECURSIVE DownloadFrom(_, _, _, _)
DownloadFrom(reach, i, log, tmp) ==
    IF i > Len(gdac_servers)
    THEN [ds |-> 0, tmp |-> tmp, log |-> Append(log, LogEntry("error", "all_failed", 0))]
    ELSE LET attempt == Append(log, LogEntry("info", "attempt", i)) IN
         IF gdac_servers[i] = "ftp" \/ reach[i] = "nodac"
         THEN DownloadFrom(reach, i + 1,
                           Append(attempt, LogEntry("warning", "no_dac", i)), tmp)
         ELSE IF reach[i] = "raise"
         THEN DownloadFrom(reach, i + 1,
                           Append(attempt, LogEntry("warning", "failed", i)), tmp)
         ELSE IF reach[i] = "corrupt"
         THEN DownloadFrom(reach, i + 1,
                           Append(attempt, LogEntry("warning", "failed", i)), tmp + 1)
         ELSE [ds |-> i, tmp |-> tmp,
               log |-> Append(attempt, LogEntry("info", "downloaded", i))]

download_netcdf_file(reach) == DownloadFrom(reach, 1, <<>>, 0)

\* safe_extract, lines 143-164:  value if value else None  keeps NaN (a float
\* that is not zero is true) and drops 0 and the empty string
safe_extract(f) ==
    LET raw == IF f.nd = -1 \/ Item(f) = RAISE THEN None
               ELSE IF DecodeStrip(Item(f)) = RAISE THEN None
               ELSE DecodeStrip(Item(f))
    IN  IF raw = Num(0) \/ raw = Str(BLANK) THEN None ELSE raw

\* launch_date.values, lines 185-187: the raw array, not decoded
RawArray(f) == [t |-> "ndarray", v |-> 0]

\* the keys of lines 166-181
DirectKeys ==
    {"wmo_id", "platform_type", "platform_maker", "project_name",
     "launch_latitude", "launch_longitude"}

\* get_float_metadata_direct, lines 137-204, once the dataset is at hand: the
\* launch_date key is set only when the dataset holds LAUNCH_DATE
MetadataDirectFrom(meta_ds, wmo_id) ==
    LET base == [wmo_id |-> wmo_id,
                 platform_type |-> safe_extract(Get(meta_ds, "PLATFORM_TYPE")),
                 platform_maker |-> safe_extract(Get(meta_ds, "PLATFORM_MAKER")),
                 project_name |-> safe_extract(Get(meta_ds, "PROJECT_NAME")),
                 launch_latitude |-> safe_extract(Get(meta_ds, "LAUNCH_LATITUDE")),
                 launch_longitude |-> safe_extract(Get(meta_ds, "LAUNCH_LONGITUDE"))]
    IN  IF Get(meta_ds, "LAUNCH_DATE") = Absent THEN base
        ELSE [k \in DirectKeys \cup {"launch_date"} |->
                IF k = "launch_date" THEN RawArray(Get(meta_ds, "LAUNCH_DATE"))
                ELSE base[k]]

get_float_metadata_direct(ds, meta_ds, wmo_id) ==
    IF ds = 0 THEN NoMetadata ELSE MetadataDirectFrom(meta_ds, wmo_id)

\* metadata.update({...}), lines 239-243
WithMissingFields(metadata) ==
    [k \in DOMAIN metadata \cup {"dac_name", "end_mission_date"} |->
        IF k = "dac_name" THEN Str(TXT)
        ELSE IF k = "end_mission_date" THEN None
        ELSE metadata[k]]

\* "{lat:.2f}", line 236: raises for a value that is no number
FormatRaises(x) == x.t \notin {"num", "nan", "pyint"}

\* lines 210-247; RAISE when the format of line 236 raises (nothing catches it
\* in the wrapper)
extract_float_metadata_with_direct_fallback(original, direct) ==
    IF original # NoMetadata THEN original
    ELSE IF direct = NoMetadata THEN NoMetadata
    ELSE LET lat == direct["launch_latitude"]
             lon == direct["launch_longitude"]
         IN  IF lat # None /\ lon # None /\ (FormatRaises(lat) \/ FormatRaises(lon))
             THEN RAISE
             ELSE WithMissingFields(direct)

\* the metadata datasets of the extractor's specification
MetaDataset(lat, lon, launch_date, platform_type, aux) ==
    [v |-> [x \in MetaVars |->
              CASE x = "LAUNCH_LATITUDE" -> lat
                [] x = "LAUNCH_LONGITUDE" -> lon
                [] x = "LAUNCH_DATE" -> launch_date
                [] x = "PLATFORM_TYPE" -> platform_type
                [] OTHER -> aux]]

MetaDatasets ==
    {MetaDataset(lat, lon, launch_date, platform_type, aux) :
        lat \in {Absent, Scalar(NaN), Scalar(Num(0)), Scalar(Num(1)),
                 Scalar(Bytes(TXT))},
        lon \in {Absent, Scalar(Num(1))},
        launch_date \in {Absent, Scalar(Bytes(ISO)), Scalar(Dt64(1))},
        platform_type \in {Absent, Scalar(Bytes(TXT)), Scalar(Bytes(CORRUPT))},
        aux \in {Absent, Scalar(Bytes(ISO))}}

\* extract_float_metadata as the processor runs it: the original method, or
\* the wrapper when add_direct_access_fallback_to_processor has replaced it
\* (direct_gdac_access.py 249-251); the wrapper downloads only when the
\* original returned None
ExtractMetadata(fallback, af, opened, meta_ds, direct_reach, wmo_id) ==
    LET original == extract_float_metadata(af, opened, meta_ds, wmo_id) IN
    IF ~fallback THEN original
    ELSE extract_float_metadata_with_direct_fallback(
             original,
             get_float_metadata_direct(
                 download_netcdf_file(direct_reach).ds, meta_ds, wmo_id))

\* what extract_float_metadata leaves unreleased when it returns, lines
\* 169-232: meta_ds.close() (line 216) is reached only after the dictionary
\* is built, so the handle stays open on the early return of lines 183-185 and
\* on an exception (lines 221-223); the finally of lines 224-232 clears the
\* client cache whenever af is set
ResourcesAfterOriginal(af, opened, meta_ds, wmo_id) ==
    [meta_ds_open |-> af # 0 /\ opened /\ MetadataFrom(meta_ds, wmo_id) = NoMetadata,
     cache_kept |-> FALSE]

\* the same for the method the processor runs: the wrapper adds the temporary
\* files download_netcdf_file wrote and did not unlink (direct_gdac_access.py
\* 106-122); get_float_metadata_direct closes its dataset (line 201)
ResourcesAfterExtract(fallback, af, opened, meta_ds, direct_reach, wmo_id) ==
    LET left == ResourcesAfterOriginal(af, opened, meta_ds, wmo_id) IN
    [meta_ds_open |-> left.meta_ds_open,
     cache_kept |-> left.cache_kept,
     tmp_files |->
         IF fallback /\ extract_float_metadata(af, opened, meta_ds, wmo_id) = NoMetadata
         THEN download_netcdf_file(direct_reach).tmp
         ELSE 0]

InitMeta ==
    /\ call \in [fn : {"extract_float_metadata"}, fallback : BOOLEAN,
                 af : 0..1, opened : BOOLEAN, meta_ds : MetaDatasets,
                 direct_reach : ServerReach, wmo_id : {"1901234"}]
    /\ result = Pending
    /\ EmptyStore
    /\ OrchIdle

Call_extract_float_metadata ==
    /\ result = Pending
    /\ call.fn = "extract_float_metadata"
    /\ result' = ExtractMetadata(call.fallback, call.af, call.opened, call.meta_ds,
                                 call.direct_reach, call.wmo_id)
    /\ UNCHANGED <<call, store, orch>>

NextMeta == Call_extract_float_metadata

SpecMeta == InitMeta /\ [][NextMeta]_vars

(***************************************************************************)
(* Validator: validate_float_data (data_processor.py 408-476).             *)
(***************************************************************************)
\* metadata.get(key): None for a key the dict does not hold
MetaGet(metadata, key) == IF key \in DOMAIN metadata THEN metadata[key] ELSE None

\* len(set(cycle_numbers)) != len(cycle_numbers), lines 449-450
HasDuplicateCycleNumbers(cycles_data) ==
    \E a, b \in 1..Len(cycles_data) :
        a # b /\ cycles_data[a].cycle_number = cycles_data[b].cycle_number

\* sum(1 for m in measurements if m.get(column) is not None), lines 458-460
Populated(measurements_data, column) ==
    Cardinality({k \in 1..Len(measurements_data) : measurements_data[k][column] # None})

\* line 428: the quotient is kept as numerator and denominator
AvgPerCycle(cycles_data, measurements_data) ==
    IF Len(cycles_data) = 0 THEN [num |-> 0, den |-> 1]
    ELSE [num |-> Len(measurements_data), den |-> Len(cycles_data)]

\* lines 421-430 and 462-466: the per-variable counts are added only when the
\* measurement list is not empty
Stats(cycles_data, measurements_data) ==
    LET base == [cycles_count |-> Len(cycles_data),
                 measurements_count |-> Len(measurements_data),
                 avg_measurements_per_cycle |->
                     AvgPerCycle(cycles_data, measurements_data)]
    IN  IF Len(measurements_data) = 0 THEN base
        ELSE [cycles_count |-> base.cycles_count,
              measurements_count |-> base.measurements_count,
              avg_measurements_per_cycle |-> base.avg_measurements_per_cycle,
              temperature_measurements |->
                  Populated(measurements_data, "temperature"),
              salinity_measurements |-> Populated(measurements_data, "salinity"),
              pressure_measurements |-> Populated(measurements_data, "pressure")]

When(cond, msg) == IF cond THEN <<msg>> ELSE <<>>

\* line 440
MissingCoordinates(metadata) ==
    \/ MetaGet(metadata, "launch_latitude") = None
    \/ MetaGet(metadata, "launch_longitude") = None

\* line 433: not metadata.get('wmo_id')
MissingWmoId(metadata) ==
    "wmo_id" \notin DOMAIN metadata \/ metadata["wmo_id"] = ""

\* line 472, reached only with a non-empty measurement list (line 454)
NoPressure(measurements_data) ==
    Len(measurements_data) # 0 /\ Populated(measurements_data, "pressure") = 0

\* a validator that rejects missing launch coordinates without naming the error
ErrorsWithoutCoordinates(metadata, cycles_data, measurements_data) ==
    When(MissingWmoId(metadata), "Missing WMO ID")
    \o When(Len(cycles_data) = 0, "No cycles found")
    \o When(NoPressure(measurements_data), "No pressure measurements found")

\* lines 433-435, 440-442, 445-447, 472-474
Errors(metadata, cycles_data, measurements_data) ==
    When(MissingWmoId(metadata), "Missing WMO ID")
    \o When(MissingCoordinates(metadata), "Missing launch coordinates")
    \o When(Len(cycles_data) = 0, "No cycles found")
    \o When(NoPressure(measurements_data), "No pressure measurements found")

\* a validator for which a missing launch date is fatal too
ValidWithoutWarnings(metadata, cycles_data, measurements_data) ==
    /\ ~MissingWmoId(metadata)
    /\ ~MissingCoordinates(metadata)
    /\ MetaGet(metadata, "launch_date") # None
    /\ Len(cycles_data) # 0
    /\ ~NoPressure(measurements_data)

\* lines 422, 435, 442, 447, 474: valid starts True and each fatal check sets it
\* False
Valid(metadata, cycles_data, measurements_data) ==
    /\ ~MissingWmoId(metadata)
    /\ ~MissingCoordinates(metadata)
    /\ Len(cycles_data) # 0
    /\ ~NoPressure(measurements_data)

\* lines 437-438, 449-451, 454-455, 468-471
Warnings(metadata, cycles_data, measurements_data) ==
    When(MetaGet(metadata, "launch_date") = None, "Missing launch date")
    \o When(Len(cycles_data) # 0 /\ HasDuplicateCycleNumbers(cycles_data),
            "Duplicate cycle numbers found")
    \o When(Len(measurements_data) = 0, "No measurements found")
    \o When(Len(measurements_data) # 0
            /\ Populated(measurements_data, "temperature") = 0,
            "No temperature measurements found")
    \o When(Len(measurements_data) # 0
            /\ Populated(measurements_data, "salinity") = 0,
            "No salinity measurements found")

validate_float_data(metadata, cycles_data, measurements_data) ==
    [valid |-> Valid(metadata, cycles_data, measurements_data),
     warnings |-> Warnings(metadata, cycles_data, measurements_data),
     errors |-> Errors(metadata, cycles_data, measurements_data),
     stats |-> Stats(cycles_data, measurements_data)]

\* the validator on its own: any metadata dictionary (with or without
\* identifier, launch date and coordinates), up to MaxProf cycles and up to
\* MaxLevels measurements with any of temperature, salinity and pressure null
InitValidate ==
    /\ call \in [fn : {"validate_float_data"},
                 metadata :
                     [wmo_id : {"", "1901234"}, launch_date : {None, Instant(1)},
                      launch_latitude : {None, Num(1)},
                      launch_longitude : {None, Num(1)}]
                     \cup [launch_date : {None}, launch_latitude : {Num(1)},
                           launch_longitude : {Num(1)}],
                 cycles :
                     UNION {SeqsOfLen([cycle_number : 1..2], n) : n \in 0..MaxProf},
                 measurements :
                     UNION {SeqsOfLen([temperature : {None, Num(1)},
                                       salinity : {None, Num(1)},
                                       pressure : {None, Num(1)}], n)
                            : n \in 0..MaxLevels}]
    /\ result = Pending
    /\ EmptyStore
    /\ OrchIdle

Call_validate_float_data ==
    /\ result = Pending
    /\ call.fn = "validate_float_data"
    /\ result' = validate_float_data(call.metadata, call.cycles, call.measurements)
    /\ UNCHANGED <<call, store, orch>>

NextValidate == Call_validate_float_data

SpecValidate == InitValidate /\ [][NextValidate]_vars

(***************************************************************************)
(* Persistence writer: FloatDatabase (database.py).  A table is the set of *)
(* its rows; the ON CONFLICT clause of each statement decides whether a    *)
(* row is added or an existing one updated.                                *)
(***************************************************************************)
\* a context manager that closes the connection only when the body returned
get_connection_without_finally(connects, body) ==
    IF ~connects THEN <<>>
    ELSE IF body = "raise" THEN <<"connect", "execute", "rollback">>
    ELSE IF body = "commit" THEN <<"connect", "execute", "commit", "close">>
    ELSE <<"connect", "execute", "close">>

\* get_connection, lines 44-58, as the calls made on the connection: a connect
\* that raises leaves conn None (nothing to roll back or close); a body that
\* raises is followed by conn.rollback() (line 53) and every body by
\* conn.close() in the finally (lines 56-58); body is what the with block
\* does: "commit" (execute, commit), "return" (execute only, the reads) or
\* "raise"
get_connection(connects, body) ==
    IF ~connects THEN <<>>
    ELSE IF body = "raise" THEN <<"connect", "execute", "rollback", "close">>
    ELSE IF body = "commit" THEN <<"connect", "execute", "commit", "close">>
    ELSE <<"connect", "execute", "close">>

Count(events, e) == Cardinality({k \in 1..Len(events) : events[k] = e})

\* connections opened and not closed
ConnectionsOpen(events) == Count(events, "connect") - Count(events, "close")

\* a statement was executed and neither commit, rollback nor close followed it
TransactionOpen(events) ==
    \E k \in 1..Len(events) :
        /\ events[k] = "execute"
        /\ \A j \in (k + 1)..Len(events) :
               events[j] \notin {"commit", "rollback", "close"}

\* what an operation leaves behind on its connection when it returns
ConnectionState(events) ==
    [open |-> ConnectionsOpen(events), in_transaction |-> TransactionOpen(events)]

\* the columns of table floats the model keeps, of the 19 of lines 92-97
FloatColumns ==
    {"wmo_id", "platform_type", "platform_maker", "project_name", "launch_date",
     "launch_latitude", "launch_longitude", "end_mission_date", "dac_name"}

\* cur.execute(query, params) raises for a parameter dict that lacks a key of
\* the statement (KeyError) or holds a value the driver cannot adapt (a numpy
\* array)
Adaptable(params, columns) ==
    /\ params # NoMetadata
    /\ columns \subseteq DOMAIN params
    /\ \A c \in columns \ {"wmo_id"} : params[c].t # "ndarray"

\* lines 91-103: the row a first insert creates
NewFloatRow(float_data) ==
    [c \in FloatColumns \cup {"updated"} |->
        IF c = "updated" THEN FALSE ELSE float_data[c]]

\* a conflicting statement that overwrites every column of the stored row
UpdatedFloatRowWhole(row, float_data) ==
    [c \in FloatColumns \cup {"updated"} |->
        IF c = "updated" THEN TRUE ELSE float_data[c]]

\* lines 104-108: ON CONFLICT (wmo_id) DO UPDATE SET updated_at, platform_type,
\* platform_maker, end_mission_date
UpdatedFloatRow(row, float_data) ==
    [c \in FloatColumns \cup {"updated"} |->
        IF c = "updated" THEN TRUE
        ELSE IF c \in {"platform_type", "platform_maker", "end_mission_date"}
        THEN float_data[c]
        ELSE row[c]]

UpsertFloat(table, float_data) ==
    IF \E r \in table : r["wmo_id"] = float_data["wmo_id"]
    THEN {IF r["wmo_id"] = float_data["wmo_id"]
          THEN UpdatedFloatRow(r, float_data) ELSE r : r \in table}
    ELSE table \cup {NewFloatRow(float_data)}

\* insert_float_metadata, lines 81-120: db_ok = FALSE is a connect, execute or
\* commit that raises; the context manager rolls back and the call returns False
insert_float_metadata(table, float_data, db_ok) ==
    IF db_ok /\ Adaptable(float_data, FloatColumns)
    THEN [ok |-> TRUE, table |-> UpsertFloat(table, float_data)]
    ELSE [ok |-> FALSE, table |-> table]

\* the lookup without its  except Exception  clause
get_float_metadata_unguarded(table, wmo_id, db_ok) ==
    IF ~db_ok THEN RAISE
    ELSE IF \E r \in table : r.wmo_id = wmo_id
         THEN CHOOSE r \in table : r.wmo_id = wmo_id
    ELSE NoMetadata

\* get_float_metadata, lines 122-134: the row, or None when there is none or
\* when the query raises
get_float_metadata(table, wmo_id, db_ok) ==
    IF db_ok /\ \E r \in table : r["wmo_id"] = wmo_id
    THEN (CHOOSE r \in table : r["wmo_id"] = wmo_id)
    ELSE NoMetadata

\* lines 140-151: the row a first insert creates
NewCycleRow(cycle_data) ==
    [wmo_id |-> cycle_data.wmo_id,
     cycle_number |-> cycle_data.cycle_number,
     profile_date |-> cycle_data.profile_date,
     profile_latitude |-> cycle_data.profile_latitude,
     ocean_area |-> cycle_data.ocean_area,
     data_mode |-> cycle_data.data_mode,
     updated |-> FALSE]

\* lines 152-157: ON CONFLICT (wmo_id, cycle_number) DO UPDATE SET updated_at,
\* profile_date, profile_latitude, profile_longitude, data_mode
UpdatedCycleRow(row, cycle_data) ==
    [row EXCEPT !.profile_date = cycle_data.profile_date,
                !.profile_latitude = cycle_data.profile_latitude,
                !.data_mode = cycle_data.data_mode,
                !.updated = TRUE]

\* a conflict is never detected: every statement adds a row
CycleConflictNever(row, cycle_data) == FALSE

CycleConflict(row, cycle_data) ==
    row.wmo_id = cycle_data.wmo_id /\ row.cycle_number = cycle_data.cycle_number

UpsertCycle(table, cycle_data) ==
    IF \E r \in table : CycleConflict(r, cycle_data)
    THEN {IF CycleConflict(r, cycle_data)
          THEN UpdatedCycleRow(r, cycle_data) ELSE r : r \in table}
    ELSE table \cup {NewCycleRow(cycle_data)}

\* insert_cycle_data, lines 138-168
insert_cycle_data(table, cycle_data, db_ok) ==
    IF db_ok
    THEN [ok |-> TRUE, table |-> UpsertCycle(table, cycle_data)]
    ELSE [ok |-> FALSE, table |-> table]

\* a conflicting statement that blanks the pressure of the stored row
UpdatedMeasurementRowNulls(row, m) == [row EXCEPT !.pressure = None]

\* lines 218-226: ON CONFLICT (wmo_id, cycle_number, measurement_level) DO UPDATE
\* SET pressure, temperature, salinity (and doxy, chla, bbp700, nitrate,
\* ph_in_situ_total)
UpdatedMeasurementRow(row, m) ==
    [row EXCEPT !.pressure = m.pressure,
                !.temperature = m.temperature,
                !.salinity = m.salinity]

MeasurementConflict(row, m) ==
    /\ row.wmo_id = m.wmo_id
    /\ row.cycle_number = m.cycle_number
    /\ row.measurement_level = m.measurement_level

UpsertMeasurement(table, m) ==
    IF \E r \in table : MeasurementConflict(r, m)
    THEN {IF MeasurementConflict(r, m)
          THEN UpdatedMeasurementRow(r, m) ELSE r : r \in table}
    ELSE table \cup {m}

\* cur.executemany, line 232: the statements of the batch in order, inside the
\* transaction
RECURSIVE ExecuteMany(_, _, _)
ExecuteMany(table, batch, k) ==
    IF k > Len(batch) THEN table
    ELSE ExecuteMany(UpsertMeasurement(table, batch[k]), batch, k + 1)

\* a failing batch that takes the rows committed before it along
insert_measurements_batch_undoes_siblings(table, batch, fail_at) ==
    IF Len(batch) = 0 THEN [ok |-> TRUE, table |-> table]
    ELSE IF fail_at = 0 THEN [ok |-> TRUE, table |-> ExecuteMany(table, batch, 1)]
    ELSE [ok |-> FALSE, table |-> {}]

\* a connection in autocommit mode: the statements executed before the failure
\* stay
RollbackKeepsStatements(committed, working) == working

\* conn.rollback(), line 53 (and conn.close() without commit, line 58): the
\* table is what was committed before the transaction began
Rollback(committed, working) == committed

\* insert_measurements_batch, lines 190-238: an empty batch returns True at
\* line 193; fail_at = 0 is a batch that commits, fail_at = k > 0 one whose
\* connect (k = 1) or k-th statement raises, or whose commit raises (k beyond the
\* batch), after the statements before it ran inside the transaction:
\* get_connection rolls the transaction back (lines 51-55) and the call returns
\* False
insert_measurements_batch(table, batch, fail_at) ==
    IF Len(batch) = 0 THEN [ok |-> TRUE, table |-> table]
    ELSE IF fail_at = 0 THEN [ok |-> TRUE, table |-> ExecuteMany(table, batch, 1)]
    ELSE [ok |-> FALSE,
          table |-> Rollback(table,
                             ExecuteMany(table,
                                         SubSeq(batch, 1,
                                                Min(fail_at - 1, Len(batch))),
                                         1))]

(***************************************************************************)
(* The writer on its own: any sequence of platform, cycle and batch        *)
(* upserts and platform lookups, with any rows and any failures.           *)
(***************************************************************************)
MaxCycleNumber == 2
MaxBatch == 2

\* two extractions of one platform that differ in every column but the
\* identifier
StoreFloatData ==
    {[wmo_id |-> "1901234", platform_type |-> Str(TXT), platform_maker |-> None,
      project_name |-> None, launch_date |-> None, launch_latitude |-> Num(1),
      launch_longitude |-> Num(1), end_mission_date |-> None,
      dac_name |-> Str(TXT)],
     [wmo_id |-> "1901234", platform_type |-> Str(ISO), platform_maker |-> Str(TXT),
      project_name |-> Str(TXT), launch_date |-> Instant(1),
      launch_latitude |-> Num(2), launch_longitude |-> Num(2),
      end_mission_date |-> Instant(1), dac_name |-> Str(ISO)]}

StoreCycleData ==
    {[wmo_id |-> "1901234", cycle_number |-> c, profile_date |-> d,
      profile_latitude |-> None, ocean_area |-> "Indian Ocean",
      data_mode |-> None] : c \in 1..MaxCycleNumber, d \in {None, Instant(1)}}

\* measurement rows of one cycle: the levels tell the keys apart; a reading
\* comes with its QC flag and its adjusted value
StoreMeasurements ==
    {[wmo_id |-> "1901234", cycle_number |-> 1, measurement_level |-> l,
      pressure |-> Num(p), pressure_qc |-> Str(p), pressure_adjusted |-> Num(p),
      pressure_adjusted_qc |-> None, pressure_adjusted_error |-> None,
      temperature |-> None, salinity |-> None] :
        l \in 0..(MaxLevels - 1), p \in 1..2}

Batches == UNION {SeqsOfLen(StoreMeasurements, n) : n \in 0..MaxBatch}

InitStore ==
    /\ call = [fn |-> "none"]
    /\ result = Pending
    /\ EmptyStore
    /\ OrchIdle

\* the failure of an operation is a connect that raises or a body that raises:
\* the connect of an operation that succeeded did not raise
Connects(ok) == IF ok THEN {TRUE} ELSE BOOLEAN

Call_insert_float_metadata(float_data, db_ok, connects) ==
    LET r == insert_float_metadata(floats, float_data, db_ok) IN
    /\ connects \in Connects(db_ok)
    /\ call' = [fn |-> "insert_float_metadata", float_data |-> float_data]
    /\ result' = [ok |-> r.ok,
                  conn |-> ConnectionState(
                      get_connection(connects, IF r.ok THEN "commit" ELSE "raise"))]
    /\ floats' = r.table
    /\ UNCHANGED <<cycles, measurements, orch>>

Call_get_float_metadata(wmo_id, db_ok, connects) ==
    /\ connects \in Connects(db_ok)
    /\ call' = [fn |-> "get_float_metadata", wmo_id |-> wmo_id]
    /\ result' = [row |-> get_float_metadata(floats, wmo_id, db_ok),
                  conn |-> ConnectionState(
                      get_connection(connects, IF db_ok THEN "return" ELSE "raise"))]
    /\ UNCHANGED <<store, orch>>

Call_insert_cycle_data(cycle_data, db_ok, connects) ==
    LET r == insert_cycle_data(cycles, cycle_data, db_ok) IN
    /\ connects \in Connects(db_ok)
    /\ call' = [fn |-> "insert_cycle_data", cycle_data |-> cycle_data]
    /\ result' = [ok |-> r.ok,
                  conn |-> ConnectionState(
                      get_connection(connects, IF r.ok THEN "commit" ELSE "raise"))]
    /\ cycles' = r.table
    /\ UNCHANGED <<floats, measurements, orch>>

\* an empty batch returns before any connection is asked for (lines 192-193);
\* fail_at = 1 is taken as the connect that raises, a later fail_at as a
\* statement or commit that raises on the open connection
Call_insert_measurements_batch(batch, fail_at) ==
    LET r == insert_measurements_batch(measurements, batch, fail_at) IN
    /\ call' = [fn |-> "insert_measurements_batch", batch |-> batch]
    /\ result' = [ok |-> r.ok,
                  conn |-> ConnectionState(
                      IF Len(batch) = 0 THEN <<>>
                      ELSE get_connection(fail_at # 1,
                                          IF r.ok THEN "commit" ELSE "raise"))]
    /\ measurements' = r.table
    /\ UNCHANGED <<floats, cycles, orch>>

NextStore ==
    \/ \E float_data \in StoreFloatData, db_ok \in BOOLEAN, connects \in BOOLEAN :
           Call_insert_float_metadata(float_data, db_ok, connects)
    \/ \E wmo_id \in Platforms, db_ok \in BOOLEAN, connects \in BOOLEAN :
           Call_get_float_metadata(wmo_id, db_ok, connects)
    \/ \E cycle_data \in StoreCycleData, db_ok \in BOOLEAN, connects \in BOOLEAN :
           Call_insert_cycle_data(cycle_data, db_ok, connects)
    \/ \E batch \in Batches, fail_at \in 0..MaxBatch :
           Call_insert_measurements_batch(batch, fail_at)

SpecStore == InitStore /\ [][NextStore]_vars

(***************************************************************************)
(* The orchestrator: FloatBot.process_single_float and                     *)
(* process_multiple_floats (floatbot_main.py 53-146), one action per step  *)
(* of the run; what the archive holds and which calls fail are inputs of   *)
(* the step that meets them.                                               *)
(***************************************************************************)
MaxRuns == 2

\* batch_size of floatbot_main.py 106 (1000 there), scaled to the model's lists
batch_size == 2

PipelineReach ==
    {[h \in 1..Len(hosts_to_try) |-> "ok"],
     [h \in 1..Len(hosts_to_try) |-> IF h = 1 THEN "empty" ELSE "ok"],
     [h \in 1..Len(hosts_to_try) |-> "raise"]}

PipelineDirectReach ==
    {[k \in 1..Len(gdac_servers) |-> "ok"], [k \in 1..Len(gdac_servers) |-> "raise"]}

\* metadata files without LAUNCH_DATE: the launch latitude is absent, the fill
\* value, or a number
PipelineMetaDatasets ==
    {MetaDataset(lat, Scalar(Num(1)), Absent, Scalar(Bytes(TXT)), Absent) :
        lat \in {Absent, Scalar(NaN), Scalar(Num(1))}}

\* a platform with 2 cycles of 6 levels: 5 pressures and a fill value in the
\* first cycle, 3 pressures and 3 fill values in the second
EndToEndDataset ==
    ProfDataset(2, 6, Arr1(<<Num(1), Num(2)>>),
                Arr2(2, 6, <<Num(1), Num(1), Num(1), Num(1), Num(1), NaN,
                             Num(1), Num(1), Num(1), NaN, NaN, NaN>>),
                Arr2(2, 6, [k \in 1..12 |-> Num(1)]), Absent)

\* a platform whose 2 profiles of one level carry the same cycle number and
\* neither TEMP nor PSAL
RepeatedCycleDataset ==
    ProfDataset(2, 1, Arr1(<<Num(1), Num(1)>>), Scalar(Num(1)), Absent, Absent)

\* a platform with one cycle of one level more than MaxLevels: its measurements
\* do not fill a whole number of batches
OddLevelsDataset ==
    ProfDataset(1, MaxLevels + 1, Arr1(<<Num(1)>>), Scalar(Num(1)), Scalar(Num(1)),
                Absent)

\* a scalar PRES is the one shape a (profile, level) index reads a value from
PipelineProfDatasets ==
    {ProfDataset(Len(cyc), MaxLevels, Arr1(cyc), Scalar(Num(1)), Scalar(Num(1)),
                 Absent) :
        cyc \in {<<>>, <<Num(1)>>, <<Num(1), Num(2)>>}}
    \cup {ProfDataset(1, MaxLevels, Arr1(<<Num(1)>>), Scalar(NaN), Scalar(Num(1)),
                      Absent),
          EndToEndDataset, RepeatedCycleDataset, OddLevelsDataset}

StoreNow == [floats |-> floats, cycles |-> cycles, measurements |-> measurements]

\* lines 53-64: the call; run.fallback says whether the wrapper of
\* direct_gdac_access.py 210-247 is bound as the processor's
\* extract_float_metadata, which no run changes
StartRun(wmo_id, force_update) ==
    /\ calls.runs < MaxRuns
    /\ run' = [NoRun EXCEPT !.wmo_id = wmo_id, !.force_update = force_update,
                            !.fallback = run.fallback, !.ret = "running",
                            !.before = StoreNow]
    /\ calls' = [NoCalls EXCEPT !.runs = calls.runs + 1]
    /\ pc' = IF force_update THEN "extract_metadata" ELSE "check_existing"

Call_process_single_float(wmo_id, force_update) ==
    /\ pc = "idle" /\ ~multi.active
    /\ StartRun(wmo_id, force_update)
    /\ UNCHANGED <<call, result, store, multi>>

\* lines 66-71, outside the try block of line 73: an exception of the lookup
\* would leave process_single_float (ret = "raise")
Step_get_float_metadata(db_ok) ==
    /\ pc = "check_existing"
    /\ \E existing_float \in {get_float_metadata(floats, run.wmo_id, db_ok)} :
       /\ run' = [run EXCEPT !.ret = IF existing_float = RAISE THEN "raise"
                                     ELSE IF existing_float # NoMetadata
                                     THEN "True" ELSE @]
       /\ pc' = IF existing_float # NoMetadata THEN "return" ELSE "extract_metadata"
    /\ calls' = [calls EXCEPT !.lookup = @ + 1]
    /\ UNCHANGED <<call, result, store, multi>>

\* line 75 and data_processor.py 393-396: extract_float_metadata resolves the
\* source itself (line 172); an exception of the wrapper ends in the handler of
\* floatbot_main.py 119-121
Step_extract_float_metadata(reach, opened, meta_ds, direct_reach) ==
    /\ pc = "extract_metadata"
    /\ \E af \in {get_argo_float_with_fallback(reach, max_retries_default).af} :
       \E metadata \in {ExtractMetadata(run.fallback, af, opened, meta_ds,
                                        direct_reach, run.wmo_id)} :
       \E failed \in {metadata = RAISE \/ metadata = NoMetadata} :
           /\ run' = [run EXCEPT !.metadata = IF failed THEN NoMetadata ELSE metadata,
                                 !.meta_ds = meta_ds,
                                 !.ret = IF failed THEN "False" ELSE @]
           /\ pc' = IF failed THEN "return" ELSE "extract_cycles"
    /\ calls' = [calls EXCEPT !.resolve = @ + 1, !.extract = @ + 1]
    /\ UNCHANGED <<call, result, store, multi>>

\* data_processor.py 399: extract_cycle_data resolves the source again (250)
Step_extract_cycle_data(reach, opened, prof_ds) ==
    /\ pc = "extract_cycles"
    /\ \E af \in {get_argo_float_with_fallback(reach, max_retries_default).af} :
       \E data \in {extract_cycle_data(af, opened, prof_ds, run.wmo_id)} :
           run' = [run EXCEPT !.cycles_data = data.cycles,
                              !.measurements_data = data.measurements,
                              !.prof_ds = prof_ds]
    /\ pc' = "validate"
    /\ calls' = [calls EXCEPT !.resolve = @ + 1, !.extract = @ + 1]
    /\ UNCHANGED <<call, result, store, multi>>

\* a run that goes on to the writes whatever the report says
AfterValidationAlwaysWrites(validation_report) == "insert_metadata"

\* lines 84-86: an invalid report ends the run
AfterValidation(validation_report) ==
    IF validation_report.valid THEN "insert_metadata" ELSE "return"

\* lines 81-91
Step_validate_float_data ==
    /\ pc = "validate"
    /\ \E validation_report \in
              {validate_float_data(run.metadata, run.cycles_data,
                                   run.measurements_data)} :
           /\ run' = [run EXCEPT !.report = validation_report,
                                 !.success = TRUE,
                                 !.ret = IF validation_report.valid THEN @ ELSE "False"]
           /\ pc' = AfterValidation(validation_report)
    /\ calls' = [calls EXCEPT !.validate = @ + 1]
    /\ UNCHANGED <<call, result, store, multi>>

\* a run that gives up its remaining writes once one has failed
NextWriteStopsAtFailure(i) ==
    IF ~run.success THEN "return_success"
    ELSE IF i < Len(run.cycles_data) THEN "insert_cycles"
    ELSE IF Len(run.measurements_data) > 0 THEN "insert_batches"
    ELSE "return_success"

\* the write that follows the cycle loop's index i
NextWrite(i) ==
    IF i < Len(run.cycles_data) THEN "insert_cycles"
    ELSE IF Len(run.measurements_data) > 0 THEN "insert_batches"
    ELSE "return_success"

\* lines 93-97; run.metadata_ok is FALSE once line 96 has logged the failure of
\* the platform upsert
Step_insert_float_metadata(db_ok) ==
    /\ pc = "insert_metadata"
    /\ \E r \in {insert_float_metadata(floats, run.metadata, db_ok)} :
       /\ floats' = r.table
       /\ run' = [run EXCEPT !.success = r.ok, !.i = 0, !.metadata_ok = r.ok]
    /\ pc' = NextWrite(0)
    /\ calls' = [calls EXCEPT !.write = @ + 1]
    /\ UNCHANGED <<call, result, cycles, measurements, multi>>

\* lines 99-103: one turn of the loop; run.cycles_ok is what the log says of each
\* cycle upsert, in order (database.py 164 or floatbot_main.py 102)
Step_insert_cycle_data(db_ok) ==
    /\ pc = "insert_cycles"
    /\ \E r \in {insert_cycle_data(cycles, run.cycles_data[run.i + 1], db_ok)} :
       /\ cycles' = r.table
       /\ run' = [run EXCEPT !.success = @ /\ r.ok,
                             !.cycles_ok = Append(@, r.ok),
                             !.i = IF NextWrite(run.i + 1) = "insert_cycles"
                                   THEN run.i + 1 ELSE 0]
    /\ pc' = NextWrite(run.i + 1)
    /\ calls' = [calls EXCEPT !.write = @ + 1]
    /\ UNCHANGED <<call, result, floats, measurements, multi>>

\* a slice that takes the element at its end index along
SliceInclusive(list, from, to) == SubSeq(list, from + 1, Min(to + 1, Len(list)))

\* list[from:to], line 108: the elements at the (0-based) positions from to
\* to - 1 that the list has
Slice(list, from, to) == SubSeq(list, from + 1, Min(to, Len(list)))

\* lines 105-111: one turn of the loop, run.i the offset of the batch;
\* run.batches is what the log says of each batch, in order: inserted (database.py
\* 234) or failed (line 110); run.sent and run.sizes are the rows handed to
\* insert_measurements_batch so far and the length of each batch
Step_insert_measurements_batch(fail_at) ==
    /\ pc = "insert_batches"
    /\ \E batch \in {Slice(run.measurements_data, run.i, run.i + batch_size)} :
       \E r \in {insert_measurements_batch(measurements, batch, fail_at)} :
           /\ measurements' = r.table
           /\ run' = [run EXCEPT !.success = @ /\ r.ok, !.i = @ + batch_size,
                                 !.batches = Append(@, r.ok),
                                 !.sent = @ \o batch,
                                 !.sizes = Append(@, Len(batch))]
    /\ pc' = IF run.i + batch_size < Len(run.measurements_data)
             THEN "insert_batches" ELSE "return_success"
    /\ calls' = [calls EXCEPT !.write = @ + 1]
    /\ UNCHANGED <<call, result, floats, cycles, multi>>

\* lines 113-117
Step_return_success ==
    /\ pc = "return_success"
    /\ run' = [run EXCEPT !.ret = IF run.success THEN "True" ELSE "False"]
    /\ pc' = "return"
    /\ UNCHANGED <<call, result, store, calls, multi>>

\* a loop that gives up the rest of the list at the first failed platform
RemainingAfterFailureStops(todo, ret) == IF ret = "True" THEN Tail(todo) ELSE <<>>

\* lines 138-140: the for loop goes on to the next identifier whatever
\* process_single_float returned
RemainingAfter(todo, ret) == Tail(todo)

\* the call returns; under process_multiple_floats line 140 stores the outcome
Return_process_single_float ==
    /\ pc = "return"
    /\ pc' = "idle"
    /\ multi' = IF multi.active
                THEN [multi EXCEPT
                        !.todo = RemainingAfter(@, run.ret),
                        !.results = {p \in @ : p[1] # run.wmo_id}
                                    \cup {<<run.wmo_id, run.ret>>}]
                ELSE multi
    /\ UNCHANGED <<call, result, store, run, calls>>

\* lines 123-136; the MaxRuns runs of a behaviour are single calls or the
\* identifiers of one list
Call_process_multiple_floats(wmo_ids, force_update) ==
    /\ pc = "idle" /\ ~multi.active
    /\ calls.runs = 0
    /\ multi' = [active |-> TRUE, wmo_ids |-> wmo_ids, todo |-> wmo_ids,
                 force_update |-> force_update, results |-> {}]
    /\ calls' = [calls EXCEPT !.runs = MaxRuns - Len(wmo_ids)]
    /\ UNCHANGED <<call, result, store, pc, run>>

\* lines 138-140: the next identifier of the list
Step_next_float ==
    /\ pc = "idle" /\ multi.active /\ multi.todo # <<>>
    /\ StartRun(Head(multi.todo), multi.force_update)
    /\ UNCHANGED <<call, result, store, multi>>

\* lines 142-146: the results go to the caller
Return_process_multiple_floats ==
    /\ pc = "idle" /\ multi.active /\ multi.todo = <<>>
    /\ multi' = NoMulti
    /\ UNCHANGED <<call, result, store, pc, run, calls>>

Init ==
    /\ call = [fn |-> "none"]
    /\ result = Pending
    /\ EmptyStore
    /\ pc = "idle" /\ calls = NoCalls /\ multi = NoMulti
    /\ \E fallback \in BOOLEAN : run = [NoRun EXCEPT !.fallback = fallback]

Next ==
    \/ \E wmo_id \in Platforms, force_update \in BOOLEAN :
           Call_process_single_float(wmo_id, force_update)
    \/ \E db_ok \in BOOLEAN : Step_get_float_metadata(db_ok)
    \/ \E reach \in PipelineReach, opened \in BOOLEAN,
          meta_ds \in PipelineMetaDatasets, direct_reach \in PipelineDirectReach :
           Step_extract_float_metadata(reach, opened, meta_ds, direct_reach)
    \/ \E reach \in PipelineReach, opened \in BOOLEAN, prof_ds \in PipelineProfDatasets :
           Step_extract_cycle_data(reach, opened, prof_ds)
    \/ Step_validate_float_data
    \/ \E db_ok \in BOOLEAN : Step_insert_float_metadata(db_ok)
    \/ \E db_ok \in BOOLEAN : Step_insert_cycle_data(db_ok)
    \/ \E fail_at \in 0..1 : Step_insert_measurements_batch(fail_at)
    \/ Step_return_success
    \/ Return_process_single_float
    \/ \E wmo_ids \in UNION {SeqsOfLen(Platforms, n) : n \in 0..MaxRuns},
          force_update \in BOOLEAN :
           Call_process_multiple_floats(wmo_ids, force_update)
    \/ Step_next_float
    \/ Return_process_multiple_floats

Spec == Init /\ [][Next]_vars

\* a call that has begun keeps running: every step of process_single_float and
\* of process_multiple_floats is sequential code whose blocking calls (network,
\* database) return or raise
\* the processor with the wrapper of direct_gdac_access.py 249-251 installed:
\* the wrapper calls the original method first (line 216), so every path of the
\* unpatched processor is one of its paths
InitFair == Init /\ run.fallback

FairSpec == InitFair /\ [][Next]_vars /\ WF_vars(Next)

(***************************************************************************)
(* Claims about the accessor and the resolver.                             *)
(***************************************************************************)
\* C1: safe_get_value and safe_get_datetime never raise: for every field shape
\* (absent, scalar, 1-D, 2-D, wrong-shaped for the index, corrupt bytes) and
\* every index (none, integer, pair, out of range) the call returns a value or
\* null, and an absent field returns null.
C1_AccessorNeverRaises ==
    result # Pending =>
        /\ result # RAISE
        /\ result.t \in {"none", "num", "str", "pyint", "instant_utc"}
        /\ (call.field = Absent => result = None)

\* C1 witness: a call whose body raised (tuple index on an array, item() on a
\* longer array, corrupt bytes) and that returned null
C1_Witness ==
    /\ result = None
    /\ call.fn = "safe_get_value"
    /\ safe_get_value_try(call.field, call.index) = RAISE
    /\ call.field.d # <<>> /\ call.field.d[1] = Bytes(CORRUPT)

\* C6 (as claimed): the resolver returns the first host, in list order, whose
\* listing is non-empty, and every earlier host (raised, timed out or empty
\* listing) left exactly one logged failure: the number of failures logged is
\* the number of hosts attempted before the chosen one.
C6_OneFailurePerFailedMirror ==
    (result # Pending /\ result.af # 0) =>
        /\ call.reach[result.af] = "ok"
        /\ \A h \in 1..(result.af - 1) : call.reach[h] # "ok"
        /\ Len(Failures(result)) = result.af - 1

\* C7 (as claimed): a resolve call attempts at most maxAttempts (max_retries)
\* mirrors.
C7_AtMostMaxAttempts ==
    result # Pending => Len(Attempts(result)) <= call.max_retries

\* C7 (amended): a resolve call attempts at most max_retries + 1 mirrors (the
\* configured host and max_retries fallbacks), in list order; when none of them
\* yields a catalogue it returns the null handle, and it never raises.
C7_AtMostMaxRetriesPlusOne ==
    result # Pending =>
        /\ Len(Attempts(result)) <= call.max_retries + 1
        /\ \A k \in 1..Len(Attempts(result)) : Attempts(result)[k].host = k
        /\ ((\A h \in 1..Min(call.max_retries + 1, Len(hosts_to_try)) :
                call.reach[h] # "ok") => result.af = 0)
        /\ result.af \in 0..Len(hosts_to_try)

\* C7 witness: every attempted mirror failed, a later mirror was reachable and
\* was not attempted, and the null handle came back
C7_Witness ==
    /\ result # Pending
    /\ call.max_retries = max_retries_default
    /\ result.af = 0
    /\ Len(Attempts(result)) = max_retries_default + 1
    /\ call.reach[Len(hosts_to_try)] = "ok"

(***************************************************************************)
(* Claims about the profile extractor.                                     *)
(***************************************************************************)
\* processing profile i raises: while building the cycle record (int() of a
\* cycle number that is no number) or while building its levels (the dataset
\* has no N_LEVELS dimension to take the length of)
RaisesAt(prof_ds, i) == CycleRaises(prof_ds, i) \/ prof_ds.n_levels = -1

\* the profile indexes whose processing raises nowhere, ascending
RECURSIVE CleanProfiles(_, _)
CleanProfiles(prof_ds, i) ==
    IF i >= prof_ds.n_prof THEN <<>>
    ELSE (IF RaisesAt(prof_ds, i) THEN <<>> ELSE <<i>>)
         \o CleanProfiles(prof_ds, i + 1)

\* C10 (as claimed): when processing a cycle index raises at any point (cycle
\* record or any of its levels), the output of extract_cycle_data holds neither
\* that cycle's record nor a measurement of it, and every other cycle index is
\* still processed and returned: the cycles returned are exactly the records of
\* the indexes that raised nowhere, in order.
C10_RaisingCycleIsSkipped ==
    (result # Pending /\ call.af # 0 /\ call.opened /\ call.prof_ds.n_prof >= 0) =>
        LET clean == CleanProfiles(call.prof_ds, 0) IN
        /\ Len(result.cycles) = Len(clean)
        /\ \A k \in 1..Len(clean) :
               result.cycles[k] = CycleRecord(call.prof_ds, call.wmo_id, clean[k])
(***************************************************************************)
(* Claims about the metadata extractor.                                    *)
(***************************************************************************)
\* a launch coordinate the metadata dataset does not give: the variable is
\* absent or holds the fill value
CoordinateMissing(meta_ds, var_name) ==
    safe_get_value(Get(meta_ds, var_name), NoIndex) = None

\* a launch coordinate the dataset gives as a number
CoordinateGiven(meta_ds, var_name) ==
    safe_get_value(Get(meta_ds, var_name), NoIndex).t = "num"

\* C9 (as claimed): metadata extraction returns null whenever launch latitude
\* or longitude is missing from the metadata dataset, and with both coordinates
\* given and the source reachable it returns a platform record in which every
\* other absent field is null; with and without the direct-access fallback.
C9_NullIffCoordinatesMissing ==
    result # Pending =>
        /\ (CoordinateMissing(call.meta_ds, "LAUNCH_LATITUDE")
            \/ CoordinateMissing(call.meta_ds, "LAUNCH_LONGITUDE"))
               => result = NoMetadata
        /\ (/\ CoordinateGiven(call.meta_ds, "LAUNCH_LATITUDE")
            /\ CoordinateGiven(call.meta_ds, "LAUNCH_LONGITUDE")
            /\ call.af # 0 /\ call.opened)
               => /\ result # NoMetadata
                  /\ Get(call.meta_ds, "PLATFORM_TYPE") = Absent
                         => result["platform_type"] = None
                  /\ Get(call.meta_ds, "LAUNCH_DATE") = Absent
                         => result["launch_date"] = None
                  /\ Get(call.meta_ds, "PROJECT_NAME") = Absent
                         => result["project_name"] = None
(***************************************************************************)
(* Claims about the writer.                                                *)
(***************************************************************************)
SameCycleKey(a, b) == a.wmo_id = b.wmo_id /\ a.cycle_number = b.cycle_number

SameMeasurementKey(a, b) ==
    SameCycleKey(a, b) /\ a.measurement_level = b.measurement_level

\* C3: after any number of upserts, duplicates of a key within one pass
\* included, the store holds at most one cycle row per (platform, cycle number)
\* and at most one measurement row per (platform, cycle number, level); an
\* upsert with an existing key updates that row instead of adding one, and the
\* row then carries the values of the last write.
C3_KeysUniqueLastWriteWins ==
    /\ \A a, b \in cycles : SameCycleKey(a, b) => a = b
    /\ \A a, b \in measurements : SameMeasurementKey(a, b) => a = b
    /\ (call.fn = "insert_cycle_data" /\ result.ok) =>
           \E r \in cycles :
               /\ SameCycleKey(r, call.cycle_data)
               /\ r.profile_date = call.cycle_data.profile_date
               /\ r.data_mode = call.cycle_data.data_mode
    /\ (call.fn = "insert_measurements_batch" /\ result.ok) =>
           \A k \in 1..Len(call.batch) :
               (\A j \in (k + 1)..Len(call.batch) :
                    ~SameMeasurementKey(call.batch[j], call.batch[k]))
               => \E m \in measurements :
                      /\ SameMeasurementKey(m, call.batch[k])
                      /\ m.pressure = call.batch[k].pressure

\* C3 witness: a cycle row has been updated by a second upsert of its key, and
\* a committed batch held the same measurement key twice with two pressures
C3_Witness ==
    /\ \E r \in cycles : r.updated
    /\ call.fn = "insert_measurements_batch" /\ result.ok
    /\ Len(call.batch) = 2
    /\ SameMeasurementKey(call.batch[1], call.batch[2])
    /\ call.batch[1].pressure # call.batch[2].pressure
(***************************************************************************)
(* Claims about the orchestrator.                                          *)
(***************************************************************************)
\* C2: in every reachable state of the store, after any runs of
\* process_single_float (any force flags, source contents and write failures),
\* every persisted measurement row has a pressure that is not null.
C2_PersistedPressureNonNull ==
    \A m \in measurements : m.pressure # None /\ m.pressure # NaN

\* C2 witness: measurement rows are in the store after a second run of the
\* platform that ended in failure
C2_Witness ==
    /\ pc = "idle" /\ calls.runs = 2 /\ run.ret = "False"
    /\ Cardinality(measurements) >= 2
    /\ \E m \in run.before.measurements : m.wmo_id = run.wmo_id
\* the platform of the run was in the store when the run was called
PresentBefore == \E r \in run.before.floats : r["wmo_id"] = run.wmo_id

\* C4 (as claimed): a process_single_float call with force_update = false for
\* a platform already in the store resolves no source, extracts nothing, calls
\* no writer, leaves the store unchanged and returns success.
C4_ExistingPlatformIsSkipped ==
    (run.ret # "none" /\ ~run.force_update /\ PresentBefore) =>
        /\ calls.resolve = 0 /\ calls.extract = 0 /\ calls.write = 0
        /\ StoreNow = run.before
        /\ pc \in {"return", "idle"} => run.ret = "True"

\* C5 (as claimed): a platform whose launch latitude or longitude is missing
\* is never passed to a writer operation, on the primary path and on the
\* direct-access path alike, and the validator reports valid = false for it.
C5_MissingCoordinatesNeverWritten ==
    (run.meta_ds # NoMetadata
     /\ (CoordinateMissing(run.meta_ds, "LAUNCH_LATITUDE")
         \/ CoordinateMissing(run.meta_ds, "LAUNCH_LONGITUDE"))) =>
        /\ calls.write = 0
        /\ calls.validate > 0 => ~run.report.valid

\* the PRES element of profile i, level l of a profile dataset
PressureAt(prof_ds, i, l) ==
    LET f == Get(prof_ds, "PRES") IN
    IF f.nd = 2 THEN f.d[i * f.n2 + l + 1]
    ELSE IF f.nd = 0 THEN f.d[1]
    ELSE NaN

\* the (cycle, level) pairs of a profile dataset that hold a pressure
NonNullPressurePairs(prof_ds) ==
    {<<i, l>> \in (0..(prof_ds.n_prof - 1)) \X (0..(prof_ds.n_levels - 1)) :
        PressureAt(prof_ds, i, l).t = "num"}

\* C8 (as claimed): one run on an empty store, every write of which succeeds,
\* persists one measurement row per (cycle, level) pair that holds a pressure,
\* and the report counts as many; for the platform with 2 cycles, 5 pressures
\* and a null in the first and 3 pressures in the second, that is 2 cycle rows,
\* 8 measurement rows and stats.measurements_count = 8.
C8_RowsEqualNonNullPressurePairs ==
    (pc = "idle" /\ run.ret = "True" /\ run.before = NoRun.before
     /\ calls.write > 0) =>
        /\ Cardinality(measurements) = Cardinality(NonNullPressurePairs(run.prof_ds))
        /\ run.report.stats.measurements_count = Cardinality(measurements)
        /\ run.prof_ds = EndToEndDataset =>
               /\ Cardinality(cycles) = 2
               /\ Cardinality(measurements) = 8
               /\ run.report.stats.measurements_count = 8

(***************************************************************************)
(* Claims about the levels the profile extractor returns.                  *)
(***************************************************************************)
\* the (profile, level) pairs that hold a pressure, in the order the source
\* enumerates them, of the profiles whose cycle record is built
RECURSIVE PressureLevels(_, _, _)
PressureLevels(prof_ds, i, l) ==
    IF i >= prof_ds.n_prof THEN <<>>
    ELSE IF l >= prof_ds.n_levels \/ CycleRaises(prof_ds, i)
         THEN PressureLevels(prof_ds, i + 1, 0)
    ELSE (IF PressureAt(prof_ds, i, l).t = "num" THEN <<<<i, l>>>> ELSE <<>>)
         \o PressureLevels(prof_ds, i, l + 1)

\* C11 (as claimed): for every cycle the measurements returned are exactly the
\* levels whose pressure is non-null: no level with a null pressure is in the
\* output, every level with a pressure is, keyed by its level index, in the
\* order the source enumerates cycles and levels.
C11_LevelsWithPressureAreReturned ==
    (result # Pending /\ call.af # 0 /\ call.opened /\ call.prof_ds.n_prof >= 0) =>
        LET kept == PressureLevels(call.prof_ds, 0, 0) IN
        /\ Len(result.measurements) = Len(kept)
        /\ \A k \in 1..Len(kept) :
               /\ result.measurements[k].measurement_level = kept[k][2]
               /\ result.measurements[k].cycle_number =
                      CycleRecord(call.prof_ds, call.wmo_id, kept[k][1]).cycle_number
               /\ result.measurements[k].pressure =
                      PressureAt(call.prof_ds, kept[k][1], kept[k][2])

(***************************************************************************)
(* Claims about the validation report.                                     *)
(***************************************************************************)
\* C12 (as claimed): the report has valid = false if and only if the platform
\* identifier is missing, a launch coordinate is missing, no cycle was
\* extracted, or no measurement bears a pressure (an empty measurement list
\* included).
C12_InvalidIffFatalCondition ==
    (calls.validate > 0 /\ run.report # NoMetadata) =>
        (~run.report.valid <=>
            \/ MissingWmoId(run.metadata)
            \/ MetaGet(run.metadata, "launch_latitude") = None
            \/ MetaGet(run.metadata, "launch_longitude") = None
            \/ Len(run.cycles_data) = 0
            \/ Populated(run.measurements_data, "pressure") = 0)

(***************************************************************************)
(* Claims about the writes of a run.                                       *)
(***************************************************************************)
\* the batches process_single_float cuts the measurement list into
NumBatches == (Len(run.measurements_data) + batch_size - 1) \div batch_size

\* the k-th batch of the run
BatchOf(k) ==
    SubSeq(run.measurements_data, (k - 1) * batch_size + 1,
           Min(k * batch_size, Len(run.measurements_data)))

\* C13: when a measurement batch write fails, the rows of the batches that
\* committed stay in the store, every batch of the platform is still attempted,
\* and process_single_float returns failure.
C13_FailedBatchLeavesSiblings ==
    /\ \A k \in 1..Len(run.batches) :
           run.batches[k] =>
               \A j \in 1..Len(BatchOf(k)) :
                   \E m \in measurements : SameMeasurementKey(m, BatchOf(k)[j])
    /\ (pc \in {"return_success", "return", "idle"} /\ calls.write > 0) =>
           Len(run.batches) = NumBatches
    /\ (pc \in {"return", "idle"} /\ \E k \in 1..Len(run.batches) : ~run.batches[k]) =>
           run.ret = "False"

\* C13 witness: the first batch committed, the second failed, the call has
\* returned failure and the rows of the first batch, new in this run, are stored
C13_Witness ==
    /\ pc = "idle" /\ run.batches = <<TRUE, FALSE>> /\ run.ret = "False"
    /\ run.before.measurements = {}
    /\ Cardinality(measurements) = batch_size

\* no exception has left the call, and a call that is over has a boolean outcome
ReturnsBoolean ==
    /\ run.ret \in {"none", "running", "True", "False"}
    /\ pc = "return" => run.ret \in {"True", "False"}
    /\ (pc = "idle" /\ calls.runs > 0 /\ run.wmo_id # "") =>
           run.ret \in {"True", "False"}

\* C14: process_single_float never lets an exception escape: whatever fails
\* (the lookup of the existing platform, resolution, extraction, validation, a
\* write), the call terminates and returns a boolean outcome.
C14_NoExceptionEscapes ==
    /\ []ReturnsBoolean
    /\ (pc # "idle") ~> (pc = "idle" /\ run.ret \in {"True", "False"})

\* C14 witness: a call has returned failure after its lookup failed and the
\* source could not be resolved
C14_Witness ==
    /\ pc = "idle" /\ run.ret = "False" /\ ~run.force_update
    /\ calls.lookup = 1 /\ calls.resolve = 1 /\ calls.validate = 0
    /\ \E r \in run.before.floats : r.wmo_id = run.wmo_id

\* C15: no writer operation is invoked in a run unless the run's validation
\* report has been computed and says valid; a report that says invalid makes
\* the run return failure with the store as it was when the run began.
C15_WritesOnlyAfterValidReport ==
    /\ calls.write > 0 =>
           (calls.validate > 0 /\ run.report # NoMetadata /\ run.report.valid)
    /\ (run.report # NoMetadata /\ ~run.report.valid) =>
           /\ calls.write = 0
           /\ StoreNow = run.before
           /\ pc \in {"return", "idle"} /\ run.ret = "False"

\* C15 witness: a run on a store that already holds rows has returned failure
\* on an invalid report
C15_Witness ==
    /\ pc = "idle" /\ run.ret = "False"
    /\ run.report # NoMetadata /\ ~run.report.valid
    /\ run.before.floats # {} /\ run.before.cycles # {}

\* C16 (as claimed): every stored cycle row and measurement row belongs to a
\* platform whose platform row is stored, and a run whose platform upsert
\* failed stores no cycle and no measurement.
C16_RowsBelongToStoredPlatform ==
    /\ \A c \in cycles : \E f \in floats : f.wmo_id = c.wmo_id
    /\ \A m \in measurements : \E f \in floats : f.wmo_id = m.wmo_id
    /\ (calls.write > 0 /\ ~run.metadata_ok) =>
           (cycles = run.before.cycles /\ measurements = run.before.measurements)

(***************************************************************************)
(* Claims about what an upsert changes in a stored row.                    *)
(***************************************************************************)
\* the columns a conflicting platform upsert may change, the update timestamp
\* aside
MutableFloatColumns == {"platform_type", "platform_maker", "end_mission_date"}

\* C17: a platform upsert that conflicts on the identifier changes only the
\* platform type, the platform maker, the end-mission instant and the update
\* timestamp of the stored row; the identifier, the launch instant, the launch
\* latitude and longitude and every other stored column stay as they were.
C17_ConflictChangesMutableFieldsOnly ==
    [][(call'.fn = "insert_float_metadata" /\ result'.ok) =>
          \A r \in floats :
              r.wmo_id = call'.float_data.wmo_id =>
                  /\ Cardinality(floats') = Cardinality(floats)
                  /\ \E r2 \in floats' :
                         /\ \A c \in FloatColumns \ MutableFloatColumns :
                                r2[c] = r[c]
                         /\ \A c \in MutableFloatColumns :
                                r2[c] = call'.float_data[c]
                         /\ r2.updated]_vars

\* C17 witness: a stored platform row has been updated by an upsert whose
\* launch position and project differ from the stored ones
C17_Witness ==
    /\ call.fn = "insert_float_metadata" /\ result.ok
    /\ \E r \in floats :
           /\ r.updated /\ r.wmo_id = call.float_data.wmo_id
           /\ r.platform_type = call.float_data.platform_type
           /\ r.launch_latitude # call.float_data.launch_latitude
           /\ r.launch_date # call.float_data.launch_date
           /\ r.project_name # call.float_data.project_name

\* C18 (as claimed): a measurement upsert that conflicts on (platform, cycle
\* number, level index) overwrites the whole stored row: after a committed
\* batch the stored row of each key of the batch equals the last row the batch
\* wrote for that key, raw values, QC flags, adjusted values, adjusted QC flags
\* and adjusted errors alike.
C18_ConflictOverwritesWholeRow ==
    (call.fn = "insert_measurements_batch" /\ result.ok) =>
        \A k \in 1..Len(call.batch) :
            (\A j \in (k + 1)..Len(call.batch) :
                 ~SameMeasurementKey(call.batch[j], call.batch[k])) =>
                call.batch[k] \in measurements

\* C19 (as claimed): when metadata extraction has returned, on any exit path
\* (success, early return for missing launch coordinates, exception), nothing
\* it opened to read the metadata dataset is left unreleased: the dataset
\* handle is closed, the client cache is cleared and no temporary file of the
\* direct-access path remains.
C19_ResourcesReleasedOnEveryExit ==
    (result # Pending /\ call.fn = "extract_float_metadata") =>
        LET left == ResourcesAfterExtract(call.fallback, call.af, call.opened,
                                          call.meta_ds, call.direct_reach,
                                          call.wmo_id)
        IN  ~left.meta_ds_open /\ ~left.cache_kept /\ left.tmp_files = 0

\* C20 (as claimed): every validation report, valid or not and whatever the
\* inputs (an empty measurement list included), carries all the stats: the
\* cycle count, the measurement count, the average measurements per cycle (0
\* when there are no cycles) and the populated counts for temperature,
\* salinity and pressure.
C20_ReportCarriesAllStats ==
    (calls.validate > 0 /\ run.report # NoMetadata) =>
        /\ {"cycles_count", "measurements_count", "avg_measurements_per_cycle",
            "temperature_measurements", "salinity_measurements",
            "pressure_measurements"} \subseteq DOMAIN run.report.stats
        /\ run.report.stats.cycles_count = Len(run.cycles_data)
        /\ run.report.stats.measurements_count = Len(run.measurements_data)
        /\ (Len(run.cycles_data) = 0 =>
                run.report.stats.avg_measurements_per_cycle.num = 0)

(***************************************************************************)
(* Warnings, the order of the runs and of their steps.                     *)
(***************************************************************************)
Range(s) == {s[k] : k \in 1..Len(s)}

\* the run's platform has none of the defects the validator reports as errors
OnlyWarningDefects ==
    /\ ~MissingWmoId(run.metadata)
    /\ ~MissingCoordinates(run.metadata)
    /\ Len(run.cycles_data) > 0
    /\ Populated(run.measurements_data, "pressure") > 0

\* every cycle and measurement the run extracted has a row of its key
RunRowsStored ==
    /\ \E f \in floats : f.wmo_id = run.wmo_id
    /\ \A k \in 1..Len(run.cycles_data) :
           \E c \in cycles : SameCycleKey(c, run.cycles_data[k])
    /\ \A k \in 1..Len(run.measurements_data) :
           \E m \in measurements : SameMeasurementKey(m, run.measurements_data[k])

\* C21: a missing launch instant, duplicate cycle numbers, zero populated
\* temperature measurements and zero populated salinity measurements each put
\* a warning in the report; a platform with no other defect gets a valid report
\* without errors, the run goes on to the writer with every cycle and every
\* batch, and the rows are stored when the writes succeed.
C21_WarningsAreNotFatal ==
    (calls.validate > 0 /\ run.report # NoMetadata) =>
        LET warnings == Range(run.report.warnings) IN
        /\ MetaGet(run.metadata, "launch_date") = None =>
               "Missing launch date" \in warnings
        /\ HasDuplicateCycleNumbers(run.cycles_data) =>
               "Duplicate cycle numbers found" \in warnings
        /\ Populated(run.measurements_data, "temperature") = 0 =>
               \/ "No temperature measurements found" \in warnings
               \/ "No measurements found" \in warnings
        /\ Populated(run.measurements_data, "salinity") = 0 =>
               \/ "No salinity measurements found" \in warnings
               \/ "No measurements found" \in warnings
        /\ OnlyWarningDefects =>
               /\ run.report.valid /\ run.report.errors = <<>>
               /\ pc \notin {"validate", "extract_metadata", "extract_cycles"}
               /\ pc \in {"return", "idle"} =>
                      /\ calls.write = 1 + Len(run.cycles_data) + NumBatches
                      /\ run.ret = "True" => RunRowsStored

\* C21 witness: a run has returned success for a platform without launch
\* instant, with a repeated cycle number and no temperature or salinity value;
\* its report holds the four warnings and its rows are stored.
C21_Witness ==
    /\ pc = "idle" /\ run.ret = "True" /\ run.report # NoMetadata
    /\ {"Missing launch date", "Duplicate cycle numbers found",
        "No temperature measurements found", "No salinity measurements found"}
           \subseteq Range(run.report.warnings)
    /\ RunRowsStored

\* the identifiers of the list whose run has returned
Processed == SubSeq(multi.wmo_ids, 1, Len(multi.wmo_ids) - Len(multi.todo))

\* the list is handled front to back and a run under way is that of the first
\* identifier not yet handled; results holds one outcome, True or False, for
\* each identifier handled so far, so that the results returned (todo empty)
\* hold one for every requested identifier
OneAtATimeInListOrder ==
    multi.active =>
        /\ Len(multi.todo) <= Len(multi.wmo_ids)
        /\ multi.todo = SubSeq(multi.wmo_ids,
                               Len(multi.wmo_ids) - Len(multi.todo) + 1,
                               Len(multi.wmo_ids))
        /\ pc # "idle" => multi.todo # <<>> /\ run.wmo_id = Head(multi.todo)
        /\ {p[1] : p \in multi.results} = Range(Processed)
        /\ \A p, q \in multi.results : p[1] = q[1] => p = q
        /\ \A p \in multi.results : p[2] \in {"True", "False"}

\* a step that resolves, extracts or writes belongs to the one run under way,
\* the rows it changes are rows of that run's platform, and a run starts only
\* when no other is under way (the writes of the one before have returned)
RunStepsDoNotInterleave ==
    /\ (calls'.resolve # calls.resolve \/ calls'.write # calls.write) =>
           (pc \notin {"idle", "return"} \/ calls'.runs # calls.runs)
    /\ calls'.runs # calls.runs =>
           pc = "idle" /\ calls'.write = 0 /\ calls'.resolve = 0
    /\ \A r \in (floats' \ floats) \cup (cycles' \ cycles)
                \cup (measurements' \ measurements) : r.wmo_id = run.wmo_id

\* C22: process_multiple_floats handles the platforms one at a time in list
\* order: every write of a platform has returned before the next platform is
\* resolved or extracted, a platform that fails (source unreachable, invalid
\* report, failed write) does not end the list, and the results hold one
\* outcome for each requested identifier.
C22_PlatformsOneAtATime == []OneAtATimeInListOrder /\ [][RunStepsDoNotInterleave]_vars

\* C22 witness: the list of two platforms is done, the first failed and the
\* second succeeded and is stored.
C22_Witness ==
    /\ multi.active /\ multi.todo = <<>> /\ pc = "idle"
    /\ multi.wmo_ids = <<"1901234", "2902345">>
    /\ multi.results = {<<"1901234", "False">>, <<"2902345", "True">>}
    /\ \E f \in floats : f.wmo_id = "2902345"
    /\ \A f \in floats : f.wmo_id # "1901234"

(***************************************************************************)
(* The accessor's index and the instant decoding.                          *)
(***************************************************************************)
\* what the accessor returns for the element e read on its own
ElementValue(e) == safe_get_value(Scalar(e), NoIndex)

\* an integer index within the extent of a one-dimensional field returns the
\* element it addresses
IntIndexSelects ==
    (call.index.k = "int" /\ call.field.nd = 1 /\ call.index.i < call.field.n1) =>
        result = ElementValue(call.field.d[call.index.i + 1])

\* a (profile, level) index within the extents of a two-dimensional field
\* returns the element it addresses
PairIndexSelects ==
    (call.index.k = "pair" /\ call.field.nd = 2
     /\ call.index.i < call.field.n1 /\ call.index.j < call.field.n2) =>
        result = ElementValue(call.field.d[call.index.i * call.field.n2
                                           + call.index.j + 1])

\* an index outside the extent of the field returns null
OutsideExtentIsNull ==
    /\ (call.index.k = "int" /\ call.field.nd = 1
        /\ call.index.i >= call.field.n1) => result = None
    /\ (call.index.k = "pair" /\ call.field.nd = 2
        /\ (call.index.i >= call.field.n1 \/ call.index.j >= call.field.n2)) =>
           result = None

\* C23 (as claimed): an index handed to the accessor selects the addressed
\* element in the right dimension: an integer i on a per-cycle field returns
\* element i, a (profile, level) pair on a two-dimensional field returns the
\* element of that profile and level, and an index outside the field's extent
\* returns null, never another element of the field.
C23_IndexSelectsAddressedElement ==
    (result # Pending /\ call.fn = "safe_get_value") =>
        IntIndexSelects /\ PairIndexSelects /\ OutsideExtentIsNull

\* the scalar the instant accessor is handed (no index)
ScalarRead == call.index = NoIndex /\ call.field.nd = 0

\* a field that holds a day count, a native timestamp or an ISO-like string
\* decodes to a UTC instant
InstantIsDecoded ==
    ScalarRead =>
        LET e == call.field.d[1] IN
        /\ e.t = "num" => result.t = "instant_utc"
        /\ (e.t = "dt64" /\ e.v # 0) => result = Instant(e.v)
        /\ (e.t \in {"bytes", "str"} /\ e.v = ISO) => result = Instant(ISO)

\* an absent field, a fill value (NaN, NaT, blank) and a malformed string give
\* null
NoInstantIsNull ==
    /\ call.field.nd = -1 => result = None
    /\ ScalarRead =>
           LET e == call.field.d[1] IN
           (\/ e.t = "nan"
            \/ (e.t = "dt64" /\ e.v = 0)
            \/ (e.t \in {"bytes", "str"} /\ e.v \in {BLANK, TXT, CORRUPT})) =>
               result = None

\* C24 (as claimed): the instant-decoding accessor returns a timezone-aware
\* UTC instant for a field holding an epoch-offset day count, a native
\* timestamp or an ISO-like string, and null for an absent field, a fill value
\* or malformed input.
C24_InstantDecoding ==
    (result # Pending /\ call.fn = "safe_get_datetime") =>
        InstantIsDecoded /\ NoInstantIsNull

(***************************************************************************)
(* Connections and batches of the writer.                                  *)
(***************************************************************************)
\* C25: every store operation (platform read, platform upsert, cycle upsert,
\* measurement batch) has closed the connection it opened when it returns,
\* whether it committed or failed, so that between two operations no
\* connection and no transaction is open.
C25_NoConnectionLeftOpen ==
    call.fn \in {"get_float_metadata", "insert_float_metadata",
                 "insert_cycle_data", "insert_measurements_batch"} =>
        result.conn.open = 0 /\ ~result.conn.in_transaction

\* C25 witness: a measurement batch that failed has returned, after rows were
\* stored by an earlier operation.
C25_Witness ==
    /\ call.fn = "insert_measurements_batch" /\ ~result.ok
    /\ Len(call.batch) > 0
    /\ measurements # {} /\ floats # {}

(***************************************************************************)
(* The steps of one run.                                                   *)
(***************************************************************************)
\* the steps of a run come in the order extract metadata, extract cycles,
\* validate, persist
StepsInOrder ==
    /\ calls.extract <= 2 /\ calls.validate <= 1
    /\ calls.validate > 0 => calls.extract = 2
    /\ calls.write > 0 => calls.validate = 1
    /\ pc = "extract_cycles" => calls.extract = 1 /\ run.metadata # NoMetadata
    /\ pc = "validate" => calls.extract = 2 /\ calls.validate = 0
    /\ pc \in {"insert_metadata", "insert_cycles", "insert_batches"} =>
           calls.validate = 1

\* the cycle extraction is not started when the metadata extraction returned
\* null
NoCyclesWithoutMetadata ==
    (calls.extract > 0 /\ run.metadata = NoMetadata) =>
        calls.extract = 1 /\ pc \in {"return", "idle"}

\* C26 (as claimed): a run goes through resolve source, extract metadata,
\* extract cycles and measurements, validate, persist in that order; the source
\* is resolved once for the run, so that both extractions read from the same
\* mirror, and the cycle extraction is not started when the metadata extraction
\* returned null.
C26_ResolvedOnceStepsInOrder ==
    calls.resolve <= 1 /\ StepsInOrder /\ NoCyclesWithoutMetadata

(***************************************************************************)
(* Batches of one run and its outcome.                                     *)
(***************************************************************************)
\* the run is past its last write
WritesDone == calls.write > 0 /\ pc \in {"return_success", "return", "idle"}

\* C27: the batches handed to the writer partition the measurement list: put
\* end to end they are the list, each row once and in list order; every batch
\* but the last has batch_size rows and the last between 1 and batch_size; an
\* empty list causes no batch write.
C27_BatchesPartitionTheList ==
    /\ Len(run.sent) <= Len(run.measurements_data)
    /\ run.sent = SubSeq(run.measurements_data, 1, Len(run.sent))
    /\ \A k \in 1..Len(run.sizes) :
           /\ run.sizes[k] \in 1..batch_size
           /\ k < Len(run.sizes) => run.sizes[k] = batch_size
    /\ WritesDone =>
           /\ run.sent = run.measurements_data
           /\ Len(run.sizes) = NumBatches
           /\ Len(run.measurements_data) = 0 =>
                  run.sizes = <<>> /\ calls.write = 1 + Len(run.cycles_data)

\* C27 witness: a list of batch_size + 1 measurements went to the writer as a
\* full batch and a batch of one row.
C27_Witness ==
    /\ WritesDone /\ Len(run.measurements_data) = batch_size + 1
    /\ run.sizes = <<batch_size, 1>>
    /\ run.sent = run.measurements_data

\* the last row the batch holds for the key of its k-th row
LastOfKey(batch, k) ==
    batch[CHOOSE j \in k..Len(batch) :
              /\ SameMeasurementKey(batch[j], batch[k])
              /\ \A i \in (j + 1)..Len(batch) :
                     ~SameMeasurementKey(batch[i], batch[k])]

\* a measurement batch that returns failure leaves the table as it was, and
\* one that returns success leaves a row for each key of the batch, holding the
\* raw values last written for that key
BatchAllOrNothing ==
    call'.fn = "insert_measurements_batch" =>
        /\ ~result'.ok => measurements' = measurements
        /\ result'.ok =>
               \A k \in 1..Len(call'.batch) :
                   \E m \in measurements' :
                       /\ SameMeasurementKey(m, call'.batch[k])
                       /\ m.pressure = LastOfKey(call'.batch, k).pressure

\* C28: a measurement batch write is atomic: when insert_measurements_batch
\* returns failure none of the batch's rows has been added to or changed in
\* the store, and when it returns success all of them are present.
C28_BatchIsAtomic == [][BatchAllOrNothing]_vars

\* C28 witness: a batch of two rows has failed; its first row would have
\* changed the pressure of a stored row, which still holds the old value.
C28_Witness ==
    /\ call.fn = "insert_measurements_batch" /\ ~result.ok
    /\ Len(call.batch) = 2
    /\ \E m \in measurements :
           /\ SameMeasurementKey(m, call.batch[1])
           /\ m.pressure # call.batch[1].pressure

(***************************************************************************)
(* The validator's report.                                                 *)
(***************************************************************************)
\* C29: in every report validate_float_data returns, valid is false exactly
\* when the errors list is not empty; the warnings have no part in it.
C29_InvalidIffErrors ==
    (result # Pending /\ call.fn = "validate_float_data") =>
        (~result.valid <=> result.errors # <<>>)

\* C29 witness: a report with warnings and no error is valid.
C29_Witness ==
    /\ result # Pending /\ call.fn = "validate_float_data"
    /\ result.valid /\ result.errors = <<>>
    /\ Len(result.warnings) = 4

\* every write of the run returned success
AllWritesOk ==
    /\ run.metadata_ok
    /\ \A k \in 1..Len(run.cycles_ok) : run.cycles_ok[k]
    /\ \A k \in 1..Len(run.batches) : run.batches[k]

\* C30: a run that reached persistence returns success exactly when the
\* platform upsert, every cycle upsert and every measurement batch write
\* returned success; a failed write makes the outcome failure and the writes
\* after it are still attempted.
C30_SuccessIffEveryWriteSucceeded ==
    (calls.write > 0 /\ pc \in {"return", "idle"}) =>
        /\ run.ret = "True" <=> AllWritesOk
        /\ run.ret \in {"True", "False"}
        /\ Len(run.cycles_ok) = Len(run.cycles_data)
        /\ Len(run.batches) = NumBatches
        /\ calls.write = 1 + Len(run.cycles_data) + NumBatches

\* C30 witness: the platform upsert failed, the two cycle upserts and the two
\* batch writes after it were made and succeeded, and the run returned failure.
C30_Witness ==
    /\ pc = "idle" /\ run.ret = "False" /\ ~run.metadata_ok
    /\ run.cycles_ok = <<TRUE, TRUE>> /\ run.batches = <<TRUE, TRUE>>
    /\ calls.write = 5
====
